---------------------------- MODULE Spec2Model ----------------------------
(* Model of the LLM translator: the Translation Gateway (back/api.py) and *)
(* the Translator Form (front/streamlit.py).                              *)
EXTENDS Integers, Sequences, FiniteSets, TLC

VARIABLES
    env_API_KEY,    \* API_KEY in os.environ before the module is imported
    dotenv_API_KEY, \* API_KEY in back/api_key.env
    gw,             \* the Gateway process: "init", "failed", "serving"
    gpc,            \* per caller: position of its translate request
    greq,           \* per caller: JSON body of the request sent to POST /translate
    gposts,         \* per caller: bodies posted to the provider for the request
    gout,           \* per caller: what the provider call ended with
    gresp,          \* per caller: response of POST /translate
    healthResp,     \* last response of GET /health to a monitoring client
    fpc,            \* the Form script: "idle", "post", "waiting", "probe"
    loaded,         \* the Form script has run at least once
    from_lang,      \* widget state of the Form
    to_lang,
    source_text,
    clicked,        \* st.button returned True in the current script run
    shown,          \* elements the current script run has put on the page
    fcalls,         \* outbound calls made by the current script run
    output_text,    \* value of the Translation text area
    error_text,     \* text of the st.error of the current script run
    probe_result    \* how the health probe of the current script run ended

gvars == <<gpc, greq, gposts, gout, gresp>>
fvars == <<fpc, loaded, from_lang, to_lang, source_text, clicked, shown, fcalls, output_text,
          error_text, probe_result>>
cvars == <<env_API_KEY, dotenv_API_KEY>>
vars == <<env_API_KEY, dotenv_API_KEY, gw, gpc, greq, gposts, gout, gresp, healthResp,
          fpc, loaded, from_lang, to_lang, source_text, clicked, shown, fcalls, output_text,
          error_text, probe_result>>

-----------------------------------------------------------------------------
(* Bounds and input domains *)

MaxContentLen == 2

Callers == {"form", "client"}

Unset == "<unset>"
EnvValues == {Unset, "", "sk-key"}

LanguageNames == {"English", "Russian"}

Texts == {"", "Hello"}

Chars == {"a", "'", " "}
StripChars == {"\"", "'", " ", "\n"}

RECURSIVE SeqsUpTo(_)
SeqsUpTo(n) ==
    IF n = 0 THEN {<<>>}
    ELSE LET S == SeqsUpTo(n - 1)
         IN  S \cup {Append(s, c) : s \in {t \in S : Len(t) = n - 1}, c \in Chars}

Contents == SeqsUpTo(MaxContentLen)

NoBody == [kind |-> "none"]
NoResp == [status |-> 0, body |-> NoBody]
NoExc == [type |-> "none", status_code |-> 0, detail |-> "", msg |-> ""]
NoOutcome == [kind |-> "none", exc |-> "", status_code |-> 0, shape |-> "", content |-> <<>>]

-----------------------------------------------------------------------------
(* Configuration and startup *)

\* load_dotenv does not override a variable the environment already sets
load_dotenv == IF env_API_KEY # Unset THEN env_API_KEY ELSE dotenv_API_KEY

AUTH_TOKEN == load_dotenv

Falsy(v) == v = Unset \/ v = ""

\* the module without its check of AUTH_TOKEN
Startup_nocheck ==
    /\ gw = "init"
    /\ gw' = "serving"
    /\ UNCHANGED <<cvars, gvars, healthResp, fvars>>

Startup ==
    /\ gw = "init"
    /\ gw' = IF Falsy(AUTH_TOKEN) THEN "failed" ELSE "serving"
    /\ UNCHANGED <<cvars, gvars, healthResp, fvars>>

-----------------------------------------------------------------------------
(* POST /translate *)

WireFields == {"text", "source_language", "target_language"}

\* pydantic validation of the body against the aliases of LanguageTranslation
Accepts(body) == WireFields \subseteq DOMAIN body

LanguageTranslation(body) ==
    [content |-> body.text, from_lang |-> body.source_language, to_lang |-> body.target_language]

ValidationError ==
    [status |-> 422, body |-> [kind |-> "error", detail |-> <<"Field required">>]]

system_message(td) ==
    <<"Translate this text from ", td.from_lang, " to ", td.to_lang,
      ". Maintain original style, line breaks, emojis and punctuation.\n\n">>

request_body(instruction, user_input) ==
    [messages |-> << [role |-> "system", content |-> instruction],
                     [role |-> "user", content |-> user_input] >>,
     temperature |-> "0.7"]

RECURSIVE LStrip(_)
LStrip(s) == IF s # <<>> /\ Head(s) \in StripChars THEN LStrip(Tail(s)) ELSE s

RECURSIVE RStrip(_)
RStrip(s) ==
    IF s # <<>> /\ s[Len(s)] \in StripChars THEN RStrip(SubSeq(s, 1, Len(s) - 1)) ELSE s

\* str.strip('"\' \n')
Strip(s) == RStrip(LStrip(s))

ProviderStatuses == {200, 429, 500}
Shapes == {"chat", "nochoices", "emptychoices", "notjson"}

IsSuccess(code) == code >= 200 /\ code <= 299

Outcomes ==
    [kind : {"RequestError"}, exc : {"ConnectError", "ReadTimeout"},
     status_code : {0}, shape : {""}, content : {<<>>}]
    \cup [kind : {"response"}, exc : {""}, status_code : {c \in ProviderStatuses : ~IsSuccess(c)},
          shape : {"notjson"}, content : {<<>>}]
    \cup [kind : {"response"}, exc : {""}, status_code : {c \in ProviderStatuses : IsSuccess(c)},
          shape : Shapes \ {"chat"}, content : {<<>>}]
    \cup [kind : {"response"}, exc : {""}, status_code : {c \in ProviderStatuses : IsSuccess(c)},
          shape : {"chat"}, content : Contents]

HTTPException(code, detail) ==
    [type |-> "HTTPException", status_code |-> code, detail |-> detail,
     msg |-> ToString(code) \o ": " \o detail]

ShapeError(shape) ==
    CASE shape = "nochoices" ->
            [type |-> "KeyError", status_code |-> 0, detail |-> "", msg |-> "'choices'"]
      [] shape = "emptychoices" ->
            [type |-> "IndexError", status_code |-> 0, detail |-> "",
             msg |-> "list index out of range"]
      [] OTHER ->
            [type |-> "JSONDecodeError", status_code |-> 0, detail |-> "",
             msg |-> "Expecting value: line 1 column 1 (char 0)"]

Return(v) == [kind |-> "return", value |-> v, exc |-> NoExc]
Raise(e) == [kind |-> "raise", value |-> <<>>, exc |-> e]

\* what the body of fetch_llm_response does with the end of its one post
fetch_llm_response(out) ==
    IF out.kind = "RequestError"
    THEN Raise(HTTPException(503, "LLM service unavailable"))
    ELSE IF ~IsSuccess(out.status_code)
    THEN Raise(HTTPException(out.status_code, "Error processing translation request"))
    ELSE IF out.shape # "chat"
    THEN Raise(ShapeError(out.shape))
    ELSE Return(Strip(out.content))

TranslationResult(translation, source, target) ==
    [kind |-> "result", translation |-> translation, source |-> source, target |-> target]

\* the handler with source and target exchanged in its result
process_translation_swapped(td, out) ==
    LET r == fetch_llm_response(out)
    IN  IF r.kind = "return"
        THEN [status |-> 200, body |-> TranslationResult(r.value, td.to_lang, td.from_lang)]
        ELSE [status |-> 500,
              body |-> [kind |-> "error", detail |-> <<"Translation failed: ", r.exc.msg>>]]

\* the handler with a fixed detail in its except branch
process_translation_generic(td, out) ==
    LET r == fetch_llm_response(out)
    IN  IF r.kind = "return"
        THEN [status |-> 200, body |-> TranslationResult(r.value, td.from_lang, td.to_lang)]
        ELSE [status |-> 500,
              body |-> [kind |-> "error", detail |-> <<"Translation failed: ", "">>]]

\* the try/except of process_translation around the awaited client call
process_translation(td, out) ==
    LET r == fetch_llm_response(out)
    IN  IF r.kind = "return"
        THEN [status |-> 200, body |-> TranslationResult(r.value, td.from_lang, td.to_lang)]
        ELSE [status |-> 500,
              body |-> [kind |-> "error", detail |-> <<"Translation failed: ", r.exc.msg>>]]

\* FastAPI validates the body, the handler builds the prompt and posts it
Receive(s) ==
    /\ gw = "serving"
    /\ gpc[s] = "sent"
    /\ IF Accepts(greq[s])
       THEN LET td == LanguageTranslation(greq[s])
            IN  /\ gposts' = [gposts EXCEPT
                        ![s] = Append(@, request_body(system_message(td), td.content))]
                /\ gpc' = [gpc EXCEPT ![s] = "awaiting"]
                /\ UNCHANGED gresp
       ELSE /\ gresp' = [gresp EXCEPT ![s] = ValidationError]
            /\ gpc' = [gpc EXCEPT ![s] = "done"]
            /\ UNCHANGED gposts
    /\ UNCHANGED <<cvars, gw, greq, gout, healthResp, fvars>>

\* the client posting once more after a failed post
ProviderReply_retry(s) ==
    /\ gpc[s] = "awaiting"
    /\ \E out \in Outcomes :
        LET td == LanguageTranslation(greq[s])
        IN  IF fetch_llm_response(out).kind = "raise" /\ Len(gposts[s]) < 2
            THEN /\ gposts' = [gposts EXCEPT
                        ![s] = Append(@, request_body(system_message(td), td.content))]
                 /\ UNCHANGED <<gout, gresp, gpc>>
            ELSE /\ gout' = [gout EXCEPT ![s] = out]
                 /\ gresp' = [gresp EXCEPT ![s] = process_translation(td, out)]
                 /\ gpc' = [gpc EXCEPT ![s] = "done"]
                 /\ UNCHANGED gposts
    /\ UNCHANGED <<cvars, gw, greq, healthResp, fvars>>

\* the awaited post ends; the handler runs to its response
ProviderReply(s) ==
    /\ gpc[s] = "awaiting"
    /\ \E out \in Outcomes :
        /\ gout' = [gout EXCEPT ![s] = out]
        /\ gresp' = [gresp EXCEPT ![s] = process_translation(LanguageTranslation(greq[s]), out)]
    /\ gpc' = [gpc EXCEPT ![s] = "done"]
    /\ UNCHANGED <<cvars, gw, greq, gposts, healthResp, fvars>>

-----------------------------------------------------------------------------
(* GET /health *)

\* a health operation that reports the failure of a translate call
service_health_check_degraded ==
    IF \E s \in Callers : gresp[s].status >= 500
    THEN [status |-> 503,
          body |-> [kind |-> "health", service |-> "language-translator",
                    status |-> "degraded", version |-> "1.0.0"]]
    ELSE [status |-> 200,
          body |-> [kind |-> "health", service |-> "language-translator",
                    status |-> "operational", version |-> "1.0.0"]]

service_health_check ==
    [status |-> 200,
     body |-> [kind |-> "health", service |-> "language-translator",
               status |-> "operational", version |-> "1.0.0"]]

Health ==
    /\ gw = "serving"
    /\ healthResp' = service_health_check
    /\ UNCHANGED <<cvars, gw, gvars, fvars>>

-----------------------------------------------------------------------------
(* A client of the HTTP boundary other than the Form *)

ClientBodies ==
    [text : Texts, source_language : {"English"}, target_language : {"Russian", "English"}]
    \cup [content : {"Hello"}, from_lang : {"English"}, to_lang : {"Russian"}]

ClientPost ==
    /\ gw = "serving"
    /\ gpc["client"] = "idle"
    /\ \E b \in ClientBodies : greq' = [greq EXCEPT !["client"] = b]
    /\ gpc' = [gpc EXCEPT !["client"] = "sent"]
    /\ gposts' = [gposts EXCEPT !["client"] = <<>>]
    /\ gout' = [gout EXCEPT !["client"] = NoOutcome]
    /\ gresp' = [gresp EXCEPT !["client"] = NoResp]
    /\ UNCHANGED <<cvars, gw, healthResp, fvars>>

Release(s) ==
    /\ gpc[s] = "done"
    /\ s = "form" => fpc # "waiting"
    /\ gpc' = [gpc EXCEPT ![s] = "idle"]
    /\ greq' = [greq EXCEPT ![s] = NoBody]
    /\ gposts' = [gposts EXCEPT ![s] = <<>>]
    /\ gout' = [gout EXCEPT ![s] = NoOutcome]
    /\ gresp' = [gresp EXCEPT ![s] = NoResp]
    /\ UNCHANGED <<cvars, gw, healthResp, fvars>>

-----------------------------------------------------------------------------
(* The Translator Form: one run of the Streamlit script *)

LANGUAGES == [l \in LanguageNames |-> l]

\* options index 0 and index 4 of the two select boxes
DefaultFrom == "English"
DefaultTo == "Russian"

Widgets == {"from_lang", "to_lang", "input_text", "translate_btn"}

\* the button without the test of source_text
SubmitBranch_noguard(clk, text) ==
    IF clk THEN "post" ELSE "none"

\* the branch the script takes at the button
SubmitBranch(clk, text) ==
    IF ~clk THEN "none" ELSE IF text # "" THEN "post" ELSE "warn"

\* the script runs from its top to its first outbound call
Rerun ==
    /\ fpc = "idle"
    /\ \E f \in LanguageNames, t \in LanguageNames, x \in Texts, c \in BOOLEAN :
        /\ ~loaded => f = DefaultFrom /\ t = DefaultTo /\ x = "" /\ c = FALSE
        /\ from_lang' = f
        /\ to_lang' = t
        /\ source_text' = x
        /\ clicked' = c
        /\ shown' = Widgets \cup (IF SubmitBranch(c, x) = "warn" THEN {"empty_warning"} ELSE {})
        /\ fpc' = IF SubmitBranch(c, x) = "post" THEN "post" ELSE "probe"
    /\ fcalls' = <<>>
    /\ output_text' = <<>>
    /\ error_text' = <<>>
    /\ probe_result' = "none"
    /\ UNCHANGED <<cvars, gw, gvars, healthResp, loaded>>

FormBody ==
    [content |-> source_text, from_lang |-> LANGUAGES[from_lang], to_lang |-> LANGUAGES[to_lang]]

\* requests.post inside the spinner
FormPost ==
    /\ fpc = "post"
    /\ fcalls' = Append(fcalls, [method |-> "POST", url |-> "/translate", json |-> FormBody])
    /\ IF gw = "serving"
       THEN /\ gpc["form"] = "idle"
            /\ gpc' = [gpc EXCEPT !["form"] = "sent"]
            /\ greq' = [greq EXCEPT !["form"] = FormBody]
            /\ shown' = shown \cup {"spinner"}
            /\ fpc' = "waiting"
            /\ UNCHANGED error_text
       ELSE /\ shown' = shown \cup {"error"}
            /\ error_text' = <<"Connection error: ", "Connection refused">>
            /\ fpc' = "probe"
            /\ UNCHANGED <<gpc, greq>>
    /\ UNCHANGED <<cvars, gw, gposts, gout, gresp, healthResp, loaded, from_lang, to_lang,
                   source_text, clicked, output_text, probe_result>>

\* the response of POST /translate arrives
FormResponse ==
    /\ fpc = "waiting"
    /\ gpc["form"] = "done"
    /\ IF gresp["form"].status = 200
       THEN /\ shown' = (shown \ {"spinner"}) \cup {"translation-info", "output_text"}
            /\ output_text' = gresp["form"].body.translation
            /\ UNCHANGED error_text
       ELSE /\ shown' = (shown \ {"spinner"}) \cup {"error"}
            /\ error_text' = <<"Translation error: ", gresp["form"].body.detail>>
            /\ UNCHANGED output_text
    /\ fpc' = "probe"
    /\ gpc' = [gpc EXCEPT !["form"] = "idle"]
    /\ greq' = [greq EXCEPT !["form"] = NoBody]
    /\ gposts' = [gposts EXCEPT !["form"] = <<>>]
    /\ gout' = [gout EXCEPT !["form"] = NoOutcome]
    /\ gresp' = [gresp EXCEPT !["form"] = NoResp]
    /\ UNCHANGED <<cvars, gw, healthResp, loaded, from_lang, to_lang, source_text, clicked,
                   fcalls, probe_result>>

\* timeout=60 of requests.post expires first
FormTimeout ==
    /\ fpc = "waiting"
    /\ shown' = (shown \ {"spinner"}) \cup {"error"}
    /\ error_text' = <<"Connection error: ", "Read timed out">>
    /\ fpc' = "probe"
    /\ UNCHANGED <<cvars, gw, gvars, healthResp, loaded, from_lang, to_lang, source_text,
                   clicked, fcalls, output_text, probe_result>>

ProbeOutcomes == IF gw = "serving" THEN {"response", "Timeout"} ELSE {"ConnectionError"}

\* the probe with its failure swallowed
AfterProbe_silent(result, sh) == sh

\* the try/except around requests.get
AfterProbe(result, sh) ==
    IF result = "response" THEN sh ELSE sh \cup {"banner"}

\* the health probe that ends the script
Probe ==
    /\ fpc = "probe"
    /\ fcalls' = Append(fcalls, [method |-> "GET", url |-> "/health", json |-> NoBody])
    /\ \E r \in ProbeOutcomes :
        /\ probe_result' = r
        /\ shown' = AfterProbe(r, shown)
    /\ fpc' = "idle"
    /\ loaded' = TRUE
    /\ UNCHANGED <<cvars, gw, gvars, healthResp, from_lang, to_lang, source_text, clicked,
                   output_text, error_text>>

-----------------------------------------------------------------------------

Init ==
    /\ env_API_KEY \in EnvValues
    /\ dotenv_API_KEY \in EnvValues
    /\ gw = "init"
    /\ gpc = [s \in Callers |-> "idle"]
    /\ greq = [s \in Callers |-> NoBody]
    /\ gposts = [s \in Callers |-> <<>>]
    /\ gout = [s \in Callers |-> NoOutcome]
    /\ gresp = [s \in Callers |-> NoResp]
    /\ healthResp = NoResp
    /\ fpc = "idle"
    /\ loaded = FALSE
    /\ from_lang = DefaultFrom
    /\ to_lang = DefaultTo
    /\ source_text = ""
    /\ clicked = FALSE
    /\ shown = {}
    /\ fcalls = <<>>
    /\ output_text = <<>>
    /\ error_text = <<>>
    /\ probe_result = "none"

Next ==
    \/ Startup
    \/ \E s \in Callers : Receive(s)
    \/ \E s \in Callers : ProviderReply(s)
    \/ \E s \in Callers : Release(s)
    \/ Health
    \/ ClientPost
    \/ Rerun
    \/ FormPost
    \/ FormResponse
    \/ FormTimeout
    \/ Probe

Spec == Init /\ [][Next]_vars

TypeOK ==
    /\ gw \in {"init", "failed", "serving"}
    /\ \A s \in Callers : gpc[s] \in {"idle", "sent", "awaiting", "done"}
    /\ fpc \in {"idle", "post", "waiting", "probe"}

-----------------------------------------------------------------------------
(* Properties *)

Posts(calls) == {i \in DOMAIN calls : calls[i].method = "POST"}
Invoked(s) == gpc[s] = "awaiting" \/ (gpc[s] = "done" /\ gout[s].kind # "none")
Finished(s) == gpc[s] = "done" /\ gout[s].kind # "none"

\* C1: when the provider answers a translate call with a non-2xx status S,
\* the response of POST /translate carries the same status S.
C1_ProviderStatusMirrored ==
    \A s \in Callers :
        (Finished(s) /\ gout[s].kind = "response"
            /\ (gout[s].status_code < 200 \/ gout[s].status_code > 299))
        => gresp[s].status = gout[s].status_code

\* C2: when the provider call fails at network level (connection failure or
\* timeout), the response of POST /translate has status 503.
C2_NetworkFailure503 ==
    \A s \in Callers :
        (Finished(s) /\ gout[s].kind = "RequestError") => gresp[s].status = 503

\* C3: the body the Form posts on a submit with non-empty text carries the
\* wire fields text, source_language and target_language, so that the
\* Gateway accepts it.
C3_FormBodyAccepted ==
    \A i \in Posts(fcalls) :
        {"text", "source_language", "target_language"} \subseteq DOMAIN fcalls[i].json

\* C4: a successful TranslationResult carries the request's source_language
\* as source and its target_language as target, whatever the provider wrote.
C4_LanguagesPassThrough ==
    \A s \in Callers :
        (Finished(s) /\ gresp[s].status = 200)
        => /\ gresp[s].body.source = greq[s].source_language
           /\ gresp[s].body.target = greq[s].target_language

C4_Witness ==
    \E s \in Callers :
        /\ Finished(s)
        /\ gresp[s].status = 200
        /\ greq[s].source_language # greq[s].target_language
        /\ gout[s].content # <<>>
        /\ gresp[s].body.translation # gout[s].content

\* C5: every answer of GET /health is status 200 with the fixed payload,
\* whatever the provider did and whatever translate calls failed or are
\* under way.
C5_HealthFixed ==
    healthResp.status # 0
    => /\ healthResp.status = 200
       /\ healthResp.body.service = "language-translator"
       /\ healthResp.body.status = "operational"
       /\ healthResp.body.version = "1.0.0"

C5_Witness ==
    /\ healthResp.status = 200
    /\ gresp["client"].status = 500
    /\ gpc["form"] = "sent"

C7_NoCredentialNoService ==
    ((env_API_KEY = Unset /\ dotenv_API_KEY \in {Unset, ""}) \/ env_API_KEY = "")
    => /\ gw # "serving"
       /\ healthResp.status = 0
       /\ \A s \in Callers : gpc[s] = "idle" /\ gresp[s].status = 0

C7_Witness ==
    /\ env_API_KEY = Unset
    /\ dotenv_API_KEY = Unset
    /\ gw = "failed"
    /\ fpc = "probe"
    /\ "error" \in shown

\* C8: a translate invocation posts to the provider exactly once; a failed
\* post is not repeated before the response is returned.
C8_ExactlyOnePost ==
    \A s \in Callers :
        /\ Len(gposts[s]) <= 1
        /\ Invoked(s) => Len(gposts[s]) = 1

C8_Witness ==
    \E s \in Callers :
        /\ Finished(s)
        /\ gresp[s].status = 500
        /\ gout[s].kind = "RequestError"
        /\ Len(gposts[s]) = 1

\* C9: a translate call that fails although the provider answered 2xx (a
\* reply without choices[0].message.content, or one that is not JSON) ends
\* in status 500 whose detail embeds the text of the error that was raised.
C9_Unexpected500 ==
    \A s \in Callers :
        (Finished(s) /\ gout[s].kind = "response"
            /\ gout[s].status_code >= 200 /\ gout[s].status_code <= 299
            /\ gout[s].shape # "chat")
        => /\ gresp[s].status = 500
           /\ Len(gresp[s].body.detail) = 2
           /\ gresp[s].body.detail[2] # ""
           /\ gresp[s].body.detail[2] =
                (CASE gout[s].shape = "nochoices" -> "'choices'"
                   [] gout[s].shape = "emptychoices" -> "list index out of range"
                   [] OTHER -> "Expecting value: line 1 column 1 (char 0)")

C9_Witness ==
    \E s \in Callers :
        /\ Finished(s)
        /\ gout[s].status_code = 200
        /\ gout[s].shape = "nochoices"
        /\ gresp[s].status = 500

\* C10: every script run, the first included, ends with the health probe; a
\* probe that fails shows the warning banner, and the pickers, the text
\* input and the handling of a submit have been rendered all the same.
C10_ProbeDoesNotBlock ==
    (fpc = "idle" /\ loaded)
    => /\ fcalls # <<>>
       /\ fcalls[Len(fcalls)].url = "/health"
       /\ probe_result \in {"Timeout", "ConnectionError"}
          => /\ "banner" \in shown
             /\ {"from_lang", "to_lang", "input_text", "translate_btn"} \subseteq shown
             /\ clicked => shown \cap {"output_text", "error", "empty_warning"} # {}

C10_Witness ==
    /\ fpc = "idle"
    /\ loaded
    /\ probe_result = "ConnectionError"
    /\ "banner" \in shown
    /\ clicked
    /\ "error" \in shown

=============================================================================
